---- MODULE Spec2Model ----
(***************************************************************************)
(* spirit: a command-line controller for govee lights.                     *)
(*                                                                         *)
(* The repository holds two front ends over the same settings module:      *)
(*   "main"  src/src/main.rs  (clap ArgMatches, get_devices/toggle/check)  *)
(*   "cli"   src/src/cli.rs   (clap derive, Cli::run and the Commands)     *)
(* The model carries both; the variable front says which one is running.   *)
(*                                                                         *)
(* Strings that are parsed (hex colors) are sequences of one-character     *)
(* strings, so that parsing is computed and not assumed.                   *)
(***************************************************************************)
EXTENDS Integers, Sequences, FiniteSets, TLC

----------------------------------------------------------------------------
(* Option<T> and Result<T> *)

None == <<>>
Some(v) == <<v>>

Ok(v) == [ok |-> TRUE, val |-> v, err |-> "none"]
Err(e) == [ok |-> FALSE, val |-> <<>>, err |-> e]

----------------------------------------------------------------------------
(* colorsys::Rgb::from_hex_str, as called at settings.rs:75, settings.rs:124 *)
(* and main.rs:249: every '#' is dropped, the text is lower-cased, three   *)
(* digits are doubled, any length but 3 or 6 is an error, and the digits   *)
(* are read in base 16.                                                    *)

HexDigits ==
    <<"0", "1", "2", "3", "4", "5", "6", "7", "8", "9", "a", "b", "c", "d", "e", "f">>

UpperHex == <<"A", "B", "C", "D", "E", "F">>

IsHexDigit(c) == \E i \in DOMAIN HexDigits : HexDigits[i] = c

HexValue(c) == (CHOOSE i \in DOMAIN HexDigits : HexDigits[i] = c) - 1

to_lowercase(c) ==
    IF \E i \in DOMAIN UpperHex : UpperHex[i] = c
    THEN HexDigits[10 + (CHOOSE i \in DOMAIN UpperHex : UpperHex[i] = c)]
    ELSE c

NotHash(c) == c # "#"

from_hex_str(s) ==
    LET stripped == SelectSeq(s, NotHash)
        chars == [i \in DOMAIN stripped |-> to_lowercase(stripped[i])]
        count == Len(chars)
        hex == IF count = 3
               THEN <<chars[1], chars[1], chars[2], chars[2], chars[3], chars[3]>>
               ELSE chars
    IN  IF count # 3 /\ count # 6 THEN Err("ParseError")
        ELSE IF \E i \in DOMAIN hex : ~IsHexDigit(hex[i]) THEN Err("ParseError")
        ELSE Ok(Some([r |-> 16 * HexValue(hex[1]) + HexValue(hex[2]),
                      g |-> 16 * HexValue(hex[3]) + HexValue(hex[4]),
                      b |-> 16 * HexValue(hex[5]) + HexValue(hex[6])]))

----------------------------------------------------------------------------
(* settings.rs *)

Max(S) == CHOOSE x \in S : \A y \in S : y <= x

\* Settings::device_settings: the list is inserted into a name-keyed map in
\* order, so the last entry of a name wins.
device_settings(settings) ==
    LET ds == settings.devices
        names == {ds[i].name : i \in DOMAIN ds}
    IN  [n \in names |-> ds[Max({i \in DOMAIN ds : ds[i].name = n})]]

\* DeviceSetting::color
DeviceSetting_color(setting) ==
    IF setting.color # None
    THEN from_hex_str(setting.color[1])
    ELSE Ok(None)

pick_color_device_first(force, device, default) ==
    LET color == IF device # None THEN device
                 ELSE IF force # None THEN force
                 ELSE default
    IN  IF color # None THEN from_hex_str(color[1]) ELSE Ok(None)

pick_color_fallback(force, device, default) ==
    LET cands == SelectSeq(<<force, device, default>>, LAMBDA c : c # None)
        good == SelectSeq(cands, LAMBDA c : from_hex_str(c[1]).ok)
    IN  IF good # <<>> THEN from_hex_str(good[1][1]) ELSE Ok(None)

\* DeviceSettingMap::pick_color
pick_color(force, device, default) ==
    LET color == IF force # None THEN force
                 ELSE IF device # None THEN device
                 ELSE default
    IN  IF color # None THEN from_hex_str(color[1]) ELSE Ok(None)

\* DeviceSettingMap::get followed by and_then(field)
device_field(map, name, field) ==
    IF name \in DOMAIN map THEN map[name][field] ELSE None

\* DeviceSettingMap::default_color
default_color(map, name, force, default) ==
    pick_color(force, device_field(map, name, "color"), default)

\* DeviceSettingMap::success_color
success_color(map, name, default) ==
    pick_color(None, device_field(map, name, "success"), default)

\* DeviceSettingMap::fail_color
fail_color(map, name, default) ==
    pick_color(None, device_field(map, name, "fail"), default)

----------------------------------------------------------------------------
(* main.rs: get_color.  settings is an Option<Settings>; the per-device    *)
(* color is parsed first, whatever the flag says.                          *)

get_color(name, color_flag, settings, map) ==
    LET device_color == IF name \in DOMAIN map
                        THEN DeviceSetting_color(map[name])
                        ELSE Ok(None)
        color == IF color_flag # None THEN color_flag
                 ELSE IF settings # None THEN settings[1].default
                 ELSE None
    IN  IF ~device_color.ok THEN device_color
        ELSE IF color_flag = None /\ device_color.val # None THEN device_color
        ELSE IF color # None THEN from_hex_str(color[1])
        ELSE Ok(None)

----------------------------------------------------------------------------
(* Device selection.  A device is [id, name]; id is its place in the       *)
(* vendor's list.  retain / filter keep the elements of the list, in       *)
(* order, whose name passes the test.                                      *)

retain_skipping_first(devices, names) ==
    IF devices = <<>> THEN <<>>
    ELSE SelectSeq(Tail(devices), LAMBDA d : d.name \in names)

lower_name(n) ==
    IF n = "Lamp" THEN "lamp" ELSE n

retain_ignoring_case(devices, names) ==
    SelectSeq(devices, LAMBDA d : lower_name(d.name) \in {lower_name(n) : n \in names})

\* Vec::retain(|d| names.contains(&d.name)) and
\* into_iter().filter(|d| names.contains(d.name)).collect()
retain(devices, names) ==
    SelectSeq(devices, LAMBDA d : d.name \in names)

cli_get_devices_unchecked(all, device, settings, devices) ==
    IF ~all
    THEN IF device # {}
         THEN Ok(retain(devices, device))
         ELSE Ok(retain(devices, DOMAIN device_settings(settings[1])))
    ELSE Ok(devices)

\* cli.rs: Cli::get_devices, after the list is fetched
cli_get_devices(all, device, settings, devices) ==
    IF ~all
    THEN IF device # {}
         THEN LET kept == retain(devices, device)
              IN  IF kept = <<>> THEN Err("NoDevicesMatched") ELSE Ok(kept)
         ELSE LET kept == retain(devices, DOMAIN device_settings(settings[1]))
              IN  IF kept = <<>> THEN Err("NoDevicesMatched") ELSE Ok(kept)
    ELSE Ok(devices)

\* main.rs: get_devices, after the list is fetched
main_get_devices(all, device, settings, devices) ==
    IF ~all /\ device # {}
    THEN LET kept == retain(devices, device)
         IN  IF Len(kept) < 1 THEN Err("NoDevicesMatched") ELSE Ok(kept)
    ELSE IF ~all /\ settings # None
    THEN LET kept == retain(devices, DOMAIN device_settings(settings[1]))
         IN  IF Len(kept) < 1 THEN Err("NoDevicesMatched") ELSE Ok(kept)
    ELSE Ok(devices)

get_devices(f, all, device, settings, devices) ==
    IF f = "cli"
    THEN cli_get_devices(all, device, settings, devices)
    ELSE main_get_devices(all, device, settings, devices)

\* The vendor's answer to client.devices(): one device per name of the list.
DevicesOf(names) == [i \in DOMAIN names |-> [id |-> i, name |-> names[i]]]

----------------------------------------------------------------------------
(* The resolvers the two front ends call per device.                       *)

EmptyMap == [n \in {} |-> None]

\* toggle: cli.rs:156-162 and main.rs:215-221
ResolveColor(f, name, force, settings) ==
    IF f = "cli"
    THEN default_color(device_settings(settings[1]), name, force, settings[1].default)
    ELSE get_color(name, force, settings,
                   IF settings # None THEN device_settings(settings[1]) ELSE EmptyMap)

\* main.rs:18-29: the defaults clap gives --success and --fail
DefaultSuccess == <<"#", "0", "0", "f", "f", "0", "0">>
DefaultFail == <<"#", "f", "f", "0", "0", "0", "0">>

main_default(settings, field, builtin) ==
    IF settings # None /\ settings[1][field] # None
    THEN settings[1][field][1]
    ELSE builtin

\* main.rs:102, 110, 261, 262: matches.value_of on an argument with a default
value_of(flag, settings, field, builtin) ==
    IF flag # None THEN flag[1] ELSE main_default(settings, field, builtin)

\* ExitStatus::success (cli.rs:211, main.rs:276)
success(st) == st.kind = "exit" /\ st.code = 0

\* ExitStatus::code (cli.rs:220, main.rs:288)
code(st) == IF st.kind = "exit" THEN Some(st.code) ELSE None

\* check: the color for one device. cli.rs:211-216; main.rs:261-282
CheckColor(f, name, args, settings, status) ==
    IF f = "cli"
    THEN IF success(status)
         THEN success_color(device_settings(settings[1]), name, args.success)
         ELSE fail_color(device_settings(settings[1]), name, args.fail)
    ELSE IF success(status)
         THEN from_hex_str(value_of(args.success, settings, "success", DefaultSuccess))
         ELSE from_hex_str(value_of(args.fail, settings, "fail", DefaultFail))

----------------------------------------------------------------------------
(* State *)

VARIABLES
    front,      \* "main" or "cli": the front end that runs
    files,      \* which spirit.toml files exist: a subset of {"global", "local"}
    settings,   \* Option<Settings>, None until loaded
    args,       \* the parsed command line
    account,    \* Option: the names of the vendor's device list, once fetched
    devices,    \* the resolved devices
    pc,         \* where the run is
    idx,        \* the loop index into devices
    calls,      \* the per-device calls issued to the vendor API, in order
    status,     \* the subprocess's exit status, NotRun before it ran
    error,      \* the error the run ended with, "none" if none
    exit,       \* Option: the process's exit code, once it has exited
    probe       \* the inputs and result of one color resolution (SpecColor)

vars == <<front, files, settings, args, account, devices, pc, idx, calls,
          status, error, exit, probe>>

NotRun == [kind |-> "not run", code |-> -1]
NoArgs == [cmd |-> "unparsed", all |-> FALSE, device |-> {}, off |-> FALSE,
           color |-> None, success |-> None, fail |-> None]
NoProbe == [f |-> "none", name |-> "", force |-> None, settings |-> None,
            done |-> FALSE, result |-> Ok(None)]
NoColor == [r |-> -1, g |-> -1, b |-> -1]

StateCall(d) == [op |-> "state", dev |-> d.id, power |-> "-", color |-> NoColor]
PowerCall(d, p) == [op |-> "power", dev |-> d.id, power |-> p, color |-> NoColor]
ColorCall(d, c) == [op |-> "color", dev |-> d.id, power |-> "-", color |-> c]

----------------------------------------------------------------------------
(* Exit codes *)

\* clap's Error::exit and a main that returns Err: error.rs:92-123
ExitError == 1
\* clap's exit on a usage error (a missing required argument): cli.rs:17-18
ExitUsage == 2
\* a Rust panic (expect / unwrap): cli.rs:206, 216, 220; main.rs:266, 288
ExitPanic == 101

----------------------------------------------------------------------------
(* The inputs the runs are checked over *)

MaxDevices == 2     \* the longest vendor device list
MaxSettings == 2    \* the longest devices list of spirit.toml (Spec)

Names == {"lamp", "Lamp"}

\* "#112233", "445566", "#789" (short for "#778899"), "#AaBbCc", and three
\* strings that are no hex color
FlagHex == <<"#", "1", "1", "2", "2", "3", "3">>
OverrideHex == <<"4", "4", "5", "5", "6", "6">>
DefaultHex == <<"#", "7", "8", "9">>
MixedCaseHex == <<"#", "A", "a", "B", "b", "C", "c">>
NotAColor == <<"n", "o", "t", "a", "c", "o", "l", "o", "r">>
BadDigitHex == <<"#", "1", "1", "2", "2", "3", "g">>
BadLengthHex == <<"#", "1", "1", "2", "2">>

SeqsUpTo(S, n) == UNION {[1..k -> S] : k \in 0..n}

Opt(S) == {None} \cup {Some(x) : x \in S}

Accounts == SeqsUpTo(Names, MaxDevices)

\* how a subprocess ends: with an exit code, or killed by a signal
Statuses ==
    {[kind |-> "exit", code |-> c] : c \in {0, 3}} \cup {[kind |-> "signal", code |-> -1]}

ByAll == {[all |-> TRUE, device |-> {}]}
ByName == {[all |-> FALSE, device |-> D] : D \in SUBSET Names}

InfoArgs(S) ==
    {[cmd |-> c, all |-> s.all, device |-> s.device, off |-> FALSE,
      color |-> None, success |-> None, fail |-> None] : s \in S, c \in {"info", "none"}}

ToggleArgs(S, colors) ==
    {[cmd |-> "toggle", all |-> s.all, device |-> s.device, off |-> TRUE,
      color |-> None, success |-> None, fail |-> None] : s \in S}
    \cup
    {[cmd |-> "toggle", all |-> s.all, device |-> s.device, off |-> FALSE,
      color |-> c, success |-> None, fail |-> None] : s \in S, c \in colors}

CheckArgs(S, succ, fail) ==
    {[cmd |-> "check", all |-> s.all, device |-> s.device, off |-> FALSE,
      color |-> None, success |-> x, fail |-> y] : s \in S, x \in succ, y \in fail}

Confs(defaults, succ, fail, lists) ==
    [default : defaults, success : succ, fail : fail, devices : lists]

\* Spec: every way of selecting devices, few colors
SelArgs ==
    InfoArgs(ByAll \cup ByName)
    \cup ToggleArgs(ByAll \cup ByName, {None, Some(FlagHex)})
    \cup CheckArgs(ByAll \cup ByName, {Some(FlagHex)}, {Some(NotAColor)})

SelConfs ==
    Confs({None}, {None}, {None},
          SeqsUpTo([name : Names, color : {None}, success : {None}, fail : {None}],
                   MaxSettings))

\* SpecRun: every source of a color, devices selected by --all or by the settings
RunColors(hex) == {None, Some(hex), Some(NotAColor)}

RunSelections == ByAll \cup {[all |-> FALSE, device |-> {}]}

RunArgs ==
    InfoArgs(RunSelections)
    \cup ToggleArgs(RunSelections, RunColors(FlagHex))
    \cup CheckArgs(RunSelections, RunColors(FlagHex), RunColors(FlagHex))

RunEntries ==
    [name : Names, color : RunColors(OverrideHex), success : {None}, fail : {None}]
    \cup
    [name : Names, color : {None}, success : RunColors(OverrideHex),
     fail : RunColors(OverrideHex)]

RunConfs ==
    Confs(RunColors(DefaultHex), RunColors(DefaultHex), RunColors(DefaultHex),
          SeqsUpTo(RunEntries, 1))

\* A command reads only its own colors: toggle the default and per-device
\* color, check the success and fail colors, info none. The inputs drawn
\* leave the colors a command never reads unset.
Unread(conf, fields) ==
    /\ \A k \in fields \cap {"default", "success", "fail"} : conf[k] = None
    /\ \A i \in DOMAIN conf.devices :
          \A k \in fields \cap {"color", "success", "fail"} : conf.devices[i][k] = None

Relevant(conf, a) ==
    CASE a.cmd = "toggle" -> Unread(conf, {"success", "fail"})
      [] a.cmd = "check" -> Unread(conf, {"default", "color"})
      [] OTHER -> Unread(conf, {"default", "color", "success", "fail"})

----------------------------------------------------------------------------
(* The run *)

Fail(e, c) == pc' = "done" /\ error' = e /\ exit' = Some(c)

Finish(c) == pc' = "done" /\ error' = "none" /\ exit' = Some(c)

\* Settings::new: the results it can give when these files exist
Settings_new(fs, confs) ==
    IF fs = {}
    THEN {Ok(None)}
    ELSE {Ok(Some(c)) : c \in confs}
         \cup {Err("ConfigError")}
         \cup (IF "global" \in fs THEN {Err("Error")} ELSE {})

\* main.rs:16 and cli.rs:38-40
LoadSettingsFrom(confs) ==
    /\ pc = "settings"
    /\ \E r \in Settings_new(files, confs) :
          /\ (r.ok /\ r.val # None /\ front = "cli") => Relevant(r.val[1], args)
          /\ IF ~r.ok
             THEN Fail(r.err, ExitError) /\ UNCHANGED settings
             ELSE IF front = "cli" /\ r.val = None
             THEN Fail("EmptySettings", ExitError) /\ UNCHANGED settings
             ELSE /\ settings' = r.val
                  /\ pc' = IF front = "main" THEN "parse" ELSE "client"
                  /\ UNCHANGED <<error, exit>>
    /\ UNCHANGED <<front, files, args, account, devices, idx, calls, status, probe>>

\* main.rs:121 (get_matches) and cli.rs:36 (Self::parse); cli.rs requires the
\* key and a subcommand
ParseFrom(argset) ==
    /\ pc = "parse"
    /\ IF front = "main"
       THEN \E a \in argset :
               /\ settings # None => Relevant(settings[1], a)
               /\ args' = a
               /\ pc' = "client"
               /\ UNCHANGED <<error, exit>>
       ELSE \E key \in BOOLEAN :
               IF ~key
               THEN Fail("Usage", ExitUsage) /\ UNCHANGED args
               ELSE \E a \in argset :
                       /\ a.cmd # "none"
                       /\ args' = a
                       /\ pc' = "settings"
                       /\ UNCHANGED <<error, exit>>
    /\ UNCHANGED <<front, files, settings, account, devices, idx, calls, status, probe>>

\* main.rs:123, 146-154 (the key may be missing) and cli.rs:42
MakeClient ==
    /\ pc = "client"
    /\ \E ok \in BOOLEAN :
          IF ok
          THEN pc' = "devices" /\ UNCHANGED <<error, exit>>
          ELSE Fail(IF front = "main" THEN "NoKey" ELSE "GoveeError", ExitError)
    /\ UNCHANGED <<front, files, settings, args, account, devices, idx, calls, status,
                   probe>>

\* main.rs:124-125, 156-192 and cli.rs:48, 53-82
GetDevices ==
    /\ pc = "devices"
    /\ \E ok \in BOOLEAN :
          IF ~ok
          THEN Fail("GoveeError", ExitError) /\ UNCHANGED <<account, devices>>
          ELSE \E names \in Accounts :
                  LET r == get_devices(front, args.all, args.device, settings,
                                       DevicesOf(names))
                  IN  /\ account' = Some(names)
                      /\ IF r.ok
                         THEN /\ devices' = r.val
                              /\ pc' = "dispatch"
                              /\ UNCHANGED <<error, exit>>
                         ELSE Fail(r.err, ExitError) /\ UNCHANGED devices
    /\ UNCHANGED <<front, files, settings, args, idx, calls, status, probe>>

\* main.rs:127-143 and cli.rs:92-105
Dispatch ==
    /\ pc = "dispatch"
    /\ IF args.cmd = "none"
       THEN Finish(0)
       ELSE pc' = args.cmd /\ UNCHANGED <<error, exit>>
    /\ UNCHANGED <<front, files, settings, args, account, devices, idx, calls, status,
                   probe>>

InfoStep_keeps_going ==
    /\ pc = "info"
    /\ IF idx > Len(devices)
       THEN /\ IF error = "none" THEN Finish(0) ELSE Fail(error, ExitError)
            /\ UNCHANGED <<idx, calls>>
       ELSE /\ calls' = Append(calls, StateCall(devices[idx]))
            /\ idx' = idx + 1
            /\ \E ok \in BOOLEAN :
                  IF ok
                  THEN UNCHANGED <<pc, error, exit>>
                  ELSE error' = "GoveeError" /\ UNCHANGED <<pc, exit>>
    /\ UNCHANGED <<front, files, settings, args, account, devices, status, probe>>

\* one turn of the loop of main.rs:194-199 and cli.rs:118-121
InfoStep ==
    /\ pc = "info"
    /\ IF idx > Len(devices)
       THEN Finish(0) /\ UNCHANGED <<idx, calls>>
       ELSE /\ calls' = Append(calls, StateCall(devices[idx]))
            /\ \E ok \in BOOLEAN :
                  IF ok
                  THEN idx' = idx + 1 /\ UNCHANGED <<pc, error, exit>>
                  ELSE Fail("GoveeError", ExitError) /\ UNCHANGED idx
    /\ UNCHANGED <<front, files, settings, args, account, devices, status, probe>>

toggle_fails_off_too(off, c) == ~c.ok

\* toggle returns the resolution's error: only when "off" is not asked
\* (main.rs:207-213, 221 and cli.rs:148-154, 162)
toggle_fails(off, c) == ~off /\ ~c.ok

ToggleStep_on_first ==
    /\ pc = "toggle"
    /\ IF idx > Len(devices)
       THEN Finish(0) /\ UNCHANGED <<idx, calls>>
       ELSE LET d == devices[idx]
                c == ResolveColor(front, d.name, args.color, settings)
            IN  IF toggle_fails(args.off, c)
                THEN /\ Fail(c.err, ExitError)
                     /\ calls' = Append(calls, PowerCall(d, "on"))
                     /\ UNCHANGED idx
                ELSE /\ calls' = Append(calls,
                                   IF args.off THEN PowerCall(d, "off")
                                   ELSE IF c.val # None THEN ColorCall(d, c.val[1])
                                   ELSE PowerCall(d, "on"))
                     /\ \E ok \in BOOLEAN :
                           IF ok
                           THEN idx' = idx + 1 /\ UNCHANGED <<pc, error, exit>>
                           ELSE Fail("GoveeError", ExitError) /\ UNCHANGED idx
    /\ UNCHANGED <<front, files, settings, args, account, devices, status, probe>>

\* one turn of the loops of main.rs:207-228 and cli.rs:148-169
ToggleStep ==
    /\ pc = "toggle"
    /\ IF idx > Len(devices)
       THEN Finish(0) /\ UNCHANGED <<idx, calls>>
       ELSE LET d == devices[idx]
                c == ResolveColor(front, d.name, args.color, settings)
            IN  IF toggle_fails(args.off, c)
                THEN Fail(c.err, ExitError) /\ UNCHANGED <<idx, calls>>
                ELSE /\ calls' = Append(calls,
                                   IF args.off THEN PowerCall(d, "off")
                                   ELSE IF c.val # None THEN ColorCall(d, c.val[1])
                                   ELSE PowerCall(d, "on"))
                     /\ \E ok \in BOOLEAN :
                           IF ok
                           THEN idx' = idx + 1 /\ UNCHANGED <<pc, error, exit>>
                           ELSE Fail("GoveeError", ExitError) /\ UNCHANGED idx
    /\ UNCHANGED <<front, files, settings, args, account, devices, status, probe>>

\* what Command::status gives: an exit status, or an io error (not spawned)
Spawned == [kind : {"io"}, code : {-1}] \cup Statuses

\* main.rs:261-268 and cli.rs:199-208: up to the subprocess's exit
CheckRun ==
    /\ pc = "check"
    /\ IF front = "main"
          /\ (~from_hex_str(value_of(args.success, settings, "success", DefaultSuccess)).ok
              \/ ~from_hex_str(value_of(args.fail, settings, "fail", DefaultFail)).ok)
       THEN Fail("ParseError", ExitError) /\ UNCHANGED status
       ELSE \E given \in BOOLEAN :
               /\ front = "main" => given
               /\ IF ~given
                  THEN Fail("panic: command was empty", ExitPanic) /\ UNCHANGED status
                  ELSE \E st \in Spawned :
                          IF st.kind = "io"
                          THEN Fail("IOError", ExitError) /\ UNCHANGED status
                          ELSE /\ status' = st
                               /\ pc' = "check_loop"
                               /\ UNCHANGED <<error, exit>>
    /\ UNCHANGED <<front, files, settings, args, account, devices, idx, calls, probe>>

\* one turn of the loop of main.rs:284-288 and cli.rs:210-220, and the exit
CheckStep ==
    /\ pc = "check_loop"
    /\ IF idx > Len(devices)
       THEN /\ IF code(status) # None
               THEN Finish(code(status)[1])
               ELSE Fail("panic: could not get status code", ExitPanic)
            /\ UNCHANGED <<idx, calls>>
       ELSE LET d == devices[idx]
                c == CheckColor(front, d.name, args, settings, status)
            IN  IF ~c.ok
                THEN Fail(c.err, ExitError) /\ UNCHANGED <<idx, calls>>
                ELSE IF c.val = None
                THEN Fail("panic: unwrap on None", ExitPanic) /\ UNCHANGED <<idx, calls>>
                ELSE /\ calls' = Append(calls, ColorCall(d, c.val[1]))
                     /\ \E ok \in BOOLEAN :
                           IF ok
                           THEN idx' = idx + 1 /\ UNCHANGED <<pc, error, exit>>
                           ELSE Fail("GoveeError", ExitError) /\ UNCHANGED idx
    /\ UNCHANGED <<front, files, settings, args, account, devices, status, probe>>

----------------------------------------------------------------------------
(* Specifications *)

Start(fileSets) ==
    /\ front \in {"main", "cli"}
    /\ files \in fileSets
    /\ settings = None
    /\ args = NoArgs
    /\ account = None
    /\ devices = <<>>
    /\ pc = IF front = "main" THEN "settings" ELSE "parse"
    /\ idx = 1
    /\ calls = <<>>
    /\ status = NotRun
    /\ error = "none"
    /\ exit = None
    /\ probe = NoProbe

\* Spec: every way of selecting devices
Init == Start(SUBSET {"global", "local"})

LoadSettings == LoadSettingsFrom(SelConfs)

Parse == ParseFrom(SelArgs)

Next ==
    \/ LoadSettings
    \/ Parse
    \/ MakeClient
    \/ GetDevices
    \/ Dispatch
    \/ InfoStep
    \/ ToggleStep
    \/ CheckRun
    \/ CheckStep

Spec == Init /\ [][Next]_vars

\* SpecRun: every source of a color
InitRun == Start({{}, {"global", "local"}})

LoadSettingsRun == LoadSettingsFrom(RunConfs)

ParseRun == ParseFrom(RunArgs)

NextRun ==
    \/ LoadSettingsRun
    \/ ParseRun
    \/ MakeClient
    \/ GetDevices
    \/ Dispatch
    \/ InfoStep
    \/ ToggleStep
    \/ CheckRun
    \/ CheckStep

SpecRun == InitRun /\ [][NextRun]_vars

----------------------------------------------------------------------------
(* Device selection (Spec) *)

\* the vendor's full list, once fetched
Full == DevicesOf(account[1])

\* get_devices has returned a list
DevicesResolved == pc \in {"dispatch", "info", "toggle", "check", "check_loop"}

\* the names of the settings-derived device-setting map
SettingsNames ==
    IF settings = None THEN {}
    ELSE {settings[1].devices[i].name : i \in DOMAIN settings[1].devices}

\* devices holds exactly the devices of the full list named in N, in the
\* full list's order
ExactlyNamed(N) ==
    /\ \A i \in DOMAIN devices :
          devices[i].id \in DOMAIN Full /\ devices[i] = Full[devices[i].id]
    /\ {devices[i].id : i \in DOMAIN devices} = {j \in DOMAIN Full : Full[j].name \in N}
    /\ \A i, j \in DOMAIN devices : i < j => devices[i].id < devices[j].id

\* C3 as claimed: the full list with --all; else the devices named by -d;
\* else the devices named in the settings-derived map; in the list's order.
C3_AsClaimed ==
    DevicesResolved =>
        IF args.all THEN devices = Full
        ELSE IF args.device # {} THEN ExactlyNamed(args.device)
        ELSE ExactlyNamed(SettingsNames)

\* C3 amended: as claimed when settings were loaded; with no --all, no -d
\* and no settings loaded (main.rs:176, 191) the full list is returned.
C3_Selection ==
    DevicesResolved =>
        IF args.all THEN devices = Full
        ELSE IF args.device # {} THEN ExactlyNamed(args.device)
        ELSE IF settings # None THEN ExactlyNamed(SettingsNames)
        ELSE devices = Full

\* -d lamp on the list <<Lamp, lamp>> keeps the second device only
C3_Witness ==
    /\ DevicesResolved
    /\ ~args.all /\ args.device = {"lamp"}
    /\ account = Some(<<"Lamp", "lamp">>)
    /\ devices = <<[id |-> 2, name |-> "lamp"]>>

\* C10: filtering the resolved list again by the same names gives the same list.
C10_Idempotent ==
    (DevicesResolved /\ ~args.all /\ (args.device # {} \/ settings # None)) =>
        get_devices(front, args.all, args.device, settings, devices) = Ok(devices)

\* the settings name Lamp only: of <<lamp, Lamp>> the second device is kept
C10_Witness ==
    /\ DevicesResolved
    /\ ~args.all /\ args.device = {} /\ SettingsNames = {"Lamp"}
    /\ account = Some(<<"lamp", "Lamp">>)
    /\ devices = <<[id |-> 2, name |-> "Lamp"]>>

\* selection is by explicit names or by settings-derived names
ByNames == ~args.all /\ (args.device # {} \/ settings # None)

\* the names selected by
FilterNames == IF args.device # {} THEN args.device ELSE SettingsNames

\* the list was fetched and no device of it has a selected name
NoMatch ==
    /\ account # None
    /\ ByNames
    /\ \A i \in DOMAIN account[1] : account[1][i] \notin FilterNames

\* C4 as claimed: a selection by names that matches nothing ends the run with
\* "No devices matched" and no per-device operation; and no run completes
\* successfully having operated on an empty device set.
C4_AsClaimed ==
    /\ NoMatch => (pc = "done" /\ error = "NoDevicesMatched" /\ exit = Some(ExitError)
                   /\ calls = <<>> /\ status = NotRun)
    /\ (pc = "done" /\ error = "none" /\ args.cmd \in {"info", "toggle", "check"}) =>
          devices # <<>>

\* C4 amended: the second half holds of the runs that selected by names; with
\* --all (or main.rs without settings) an empty vendor list is operated on
\* and the run succeeds.
C4_NoMatchIsAnError ==
    /\ NoMatch => (pc = "done" /\ error = "NoDevicesMatched" /\ exit = Some(ExitError)
                   /\ calls = <<>> /\ status = NotRun)
    /\ (pc = "done" /\ error = "none" /\ args.cmd \in {"info", "toggle", "check"}
        /\ ByNames) => devices # <<>>

\* -d Lamp against a vendor list holding only lamp
C4_Witness ==
    /\ account = Some(<<"lamp">>) /\ args.device = {"Lamp"} /\ args.cmd = "check"
    /\ pc = "done" /\ error = "NoDevicesMatched"

\* C9: with neither spirit.toml, loading gives no settings and is no error:
\* the run goes on to device resolution and the command.
C9_NoFilesNoError ==
    files = {} => error \notin {"EmptySettings", "ConfigError", "Error"}

----------------------------------------------------------------------------
(* The commands (SpecRun) *)

\* the last entry of the settings' devices list with this name, if any
EntryOf(name) ==
    IF settings = None THEN None
    ELSE LET mine == SelectSeq(settings[1].devices, LAMBDA e : e.name = name)
         IN  IF mine = <<>> THEN None ELSE Some(mine[Len(mine)])

PerDevice(name, field) ==
    IF EntryOf(name) = None THEN None ELSE EntryOf(name)[1][field]

Global(field) == IF settings = None THEN None ELSE settings[1][field]

FirstPresent(a, b, c) == IF a # None THEN a ELSE IF b # None THEN b ELSE c

Exited == status.kind = "exit"

\* the flag, per-device and global strings of the verdict's color
VerdictField == IF Exited /\ status.code = 0 THEN "success" ELSE "fail"

\* the string check applies to a device of this name, by the subprocess's
\* exit code: in cli.rs the device's own setting, else the flag; in main.rs
\* the flag, else the global setting, else the built-in default
CheckColorOf(name) ==
    IF front = "cli"
    THEN FirstPresent(PerDevice(name, VerdictField), args[VerdictField], None)
    ELSE FirstPresent(args[VerdictField], Global(VerdictField),
                      Some(IF VerdictField = "success" THEN DefaultSuccess
                           ELSE DefaultFail))

\* one color-set call per resolved device, in order, with the verdict's color
AllColored ==
    /\ Len(calls) = Len(devices)
    /\ \A i \in DOMAIN devices :
          LET s == CheckColorOf(devices[i].name)
          IN  /\ s # None
              /\ from_hex_str(s[1]).ok
              /\ calls[i] = ColorCall(devices[i], from_hex_str(s[1]).val[1])

\* C2: once the subprocess has exited with a code, every resolved device
\* gets a color-set call with the success color (code 0) or the fail color
\* (otherwise), and the process exits with the subprocess's code. Read with
\* the failures of section 7 set aside: a vendor-API error and a string that
\* is no hex color end a run before.
C2_CheckReflectsExit ==
    (pc = "done" /\ Exited /\ error \notin {"GoveeError", "ParseError"}) =>
        (AllColored /\ exit = Some(status.code))

\* What holds of both front ends: a check run that reaches its final exit
\* has colored every device and exits with the subprocess's code.
CheckCompletes ==
    (pc = "done" /\ args.cmd = "check" /\ error = "none") =>
        (Exited /\ AllColored /\ exit = Some(status.code))

\* C5: the success (fail) string applied to a device is the flag's if given,
\* else the device's own success (fail) setting, else the global one.
C5_Precedence ==
    (args.cmd = "check" /\ status # NotRun) =>
        \A i \in DOMAIN calls :
            LET name == devices[i].name
                s == FirstPresent(args[VerdictField], PerDevice(name, VerdictField),
                                  Global(VerdictField))
            IN  (s # None /\ from_hex_str(s[1]).ok) =>
                    calls[i].color = from_hex_str(s[1]).val[1]

\* C7 as claimed: a run ended by a color-parse failure has issued no call.
C7_AsClaimed ==
    (pc = "done" /\ error = "ParseError" /\ args.cmd \in {"toggle", "check"}) =>
        calls = <<>>

\* C7 amended: the run ends at the first device whose color does not parse:
\* that device and the later ones get no call; the devices before it keep
\* the calls already issued to them.
C7_AbortsAtFailure ==
    (pc = "done" /\ error = "ParseError" /\ args.cmd \in {"toggle", "check"}) =>
        /\ Len(calls) = idx - 1
        /\ \A i \in DOMAIN calls : calls[i].dev = devices[i].id
        /\ \A i \in DOMAIN calls : \A j \in DOMAIN devices :
              j >= idx => calls[i].dev # devices[j].id

\* the second device's color failed to parse after the first was set
C7_Witness ==
    /\ pc = "done" /\ error = "ParseError" /\ args.cmd = "toggle"
    /\ Len(devices) = 2 /\ idx = 2
    /\ Len(calls) = 1 /\ calls[1].op = "color"

NoCall == [op |-> "none", dev |-> 0, power |-> "-", color |-> NoColor]

\* the call toggle owes one device; none when its color does not parse
ToggleCallOf(d) ==
    IF args.off THEN PowerCall(d, "off")
    ELSE LET s == FirstPresent(args.color, PerDevice(d.name, "color"), Global("default"))
         IN  IF s = None THEN PowerCall(d, "on")
             ELSE IF from_hex_str(s[1]).ok THEN ColorCall(d, from_hex_str(s[1]).val[1])
             ELSE NoCall

\* C8: toggle issues, in list order, one call per device: power-off when
\* "off" is asked, and then no color is resolved, so no configured color
\* can fail the run; else a color-set with the resolved color if one
\* resolves, else power-on. A run that ends well has issued them all.
C8_ToggleCalls ==
    args.cmd = "toggle" =>
        /\ Len(calls) <= Len(devices)
        /\ \A i \in DOMAIN calls : calls[i] = ToggleCallOf(devices[i])
        /\ (pc = "done" /\ error = "none") => Len(calls) = Len(devices)
        /\ args.off => error # "ParseError"

\* "off" with an invalid global default and an invalid per-device color:
\* both devices are turned off and the run ends well
C8_Witness ==
    /\ args.cmd = "toggle" /\ args.off /\ pc = "done" /\ error = "none"
    /\ Global("default") = Some(NotAColor)
    /\ PerDevice("lamp", "color") = Some(NotAColor)
    /\ Len(devices) = 2 /\ devices[2].name = "lamp"
    /\ calls = <<PowerCall(devices[1], "off"), PowerCall(devices[2], "off")>>

\* a per-device call of info, toggle or check failed: the run is over with
\* the vendor's error, and the last call issued is the failed one
CallFailed ==
    /\ pc = "done" /\ error = "GoveeError" /\ calls # <<>>
    /\ args.cmd \in {"info", "toggle", "check"}

\* the calls issued so far stay as they are: none is withdrawn or replaced
CallsKept ==
    /\ Len(calls') >= Len(calls)
    /\ \A i \in DOMAIN calls : calls'[i] = calls[i]

\* C11: info, toggle and check call the devices one at a time in the order
\* of the filtered list, and the first call that fails ends the run: the
\* failed device is called once, no later device is called, the calls made
\* to the devices before it stand, and the run ends with the vendor's error
\* and a non-zero exit code.
C11_FirstFailureAborts ==
    /\ [](/\ Len(calls) <= Len(devices)
          /\ \A i \in DOMAIN calls : calls[i].dev = devices[i].id
          /\ error = "GoveeError" => (pc = "done" /\ exit = Some(ExitError))
          /\ CallFailed =>
                /\ Len(calls) = idx
                /\ \A j \in DOMAIN devices : j > idx =>
                      \A i \in DOMAIN calls : calls[i].dev # devices[j].id
                /\ exit # None /\ exit # Some(0))
    /\ [][CallsKept /\ (error # "none" => UNCHANGED calls)]_vars

\* check, the subprocess having exited with 0: the call to the first of two
\* devices failed, the second got none, and the exit code is the error's
C11_Witness ==
    /\ CallFailed /\ args.cmd = "check"
    /\ Exited /\ status.code = 0
    /\ Len(devices) = 2 /\ idx = 1 /\ Len(calls) = 1
    /\ calls[1].dev = devices[1].id
    /\ exit = Some(ExitError)

----------------------------------------------------------------------------
(* SpecColor: the toggle color resolution of both front ends as a function *)
(* of its inputs: the device's name, the --color flag and the settings.    *)

ColorStrings ==
    {FlagHex, OverrideHex, DefaultHex, MixedCaseHex, NotAColor, BadDigitHex, BadLengthHex}

ProbeConfs ==
    Confs(Opt(ColorStrings), {None}, {None},
          SeqsUpTo([name : Names, color : Opt(ColorStrings), success : {None},
                    fail : {None}], 1))

\* cli.rs runs no command without settings (cli.rs:38-40)
ProbeInputs ==
    {p \in [f : {"main", "cli"}, name : {"lamp"}, force : Opt(ColorStrings),
            settings : Opt(ProbeConfs), done : {FALSE}, result : {Ok(None)}] :
        p.f = "cli" => p.settings # None}

InitColor ==
    /\ probe \in ProbeInputs
    /\ front = probe.f
    /\ files = {}
    /\ settings = None
    /\ args = NoArgs
    /\ account = None
    /\ devices = <<>>
    /\ pc = "probe"
    /\ idx = 1
    /\ calls = <<>>
    /\ status = NotRun
    /\ error = "none"
    /\ exit = None

Resolve ==
    /\ pc = "probe"
    /\ ~probe.done
    /\ probe' = [probe EXCEPT
                    !.done = TRUE,
                    !.result = ResolveColor(probe.f, probe.name, probe.force,
                                            probe.settings)]
    /\ UNCHANGED <<front, files, settings, args, account, devices, pc, idx, calls,
                   status, error, exit>>

NextColor == Resolve

SpecColor == InitColor /\ [][NextColor]_vars

\* the three candidates of a probe: explicit, per-device override, global default
Explicit == probe.force

Override ==
    IF probe.settings = None THEN None
    ELSE LET ds == probe.settings[1].devices
             mine == SelectSeq(ds, LAMBDA e : e.name = probe.name)
         IN  IF mine = <<>> THEN None ELSE mine[Len(mine)].color

Default == IF probe.settings = None THEN None ELSE probe.settings[1].default

Valid(c) == c = None \/ from_hex_str(c[1]).ok

\* the highest-precedence candidate that is present, None if none is
SelectedCandidate ==
    IF Explicit # None THEN Explicit
    ELSE IF Override # None THEN Override
    ELSE Default

\* C1: with every present candidate a valid hex color, the resolved color is
\* the parse of the explicit string if present, else of the per-device
\* override if present, else of the global default if present, else none.
C1_Ordered ==
    (probe.done /\ Valid(Explicit) /\ Valid(Override) /\ Valid(Default)) =>
        probe.result =
            (IF Explicit # None THEN from_hex_str(Explicit[1])
             ELSE IF Override # None THEN from_hex_str(Override[1])
             ELSE IF Default # None THEN from_hex_str(Default[1])
             ELSE Ok(None))

\* the spec's example: "#112233" over "445566" over "#789" resolves to 11 22 33
C1_Witness ==
    /\ probe.done
    /\ Explicit = Some(FlagHex) /\ Override = Some(OverrideHex) /\ Default = Some(DefaultHex)
    /\ probe.result = Ok(Some([r |-> 17, g |-> 34, b |-> 51]))

\* C6: when the selected candidate is no valid hex color, resolution returns
\* a parse error: no lower candidate's color, and not none.
C6_SelectedInvalidFails ==
    (probe.done /\ SelectedCandidate # None /\ ~Valid(SelectedCandidate)) =>
        (~probe.result.ok /\ probe.result.err = "ParseError")

\* an invalid per-device override is selected while a valid default stands below it
C6_Witness ==
    /\ probe.done
    /\ Explicit = None /\ Override = Some(NotAColor) /\ Default = Some(DefaultHex)
    /\ ~probe.result.ok

\* C12: with an explicit color flag the resolution is the parse of the
\* flag's string, whatever the per-device color and the global default
\* hold: an invalid string at a level that is not selected fails nothing.
C12_ExplicitAlone ==
    (probe.done /\ Explicit # None) =>
        probe.result = from_hex_str(Explicit[1])

====
